---- MODULE Spec2Model ----
(***************************************************************************)
(* Model of the detection front-end (detection_api/static/js/script.js and *)
(* its stylesheet): the overlay of bounding boxes and labels, the label    *)
(* placement and collision passes, the timers they schedule, the resize    *)
(* handler, and displayResults with the image load that starts a pass;     *)
(* the requests of processImage and loadDemoImages with #loading,          *)
(* #resultSection and #errorMessage; and the camera streams of openCamera, *)
(* closeCamera and capturePhoto.                                           *)
(*                                                                         *)
(* Lengths are integers in tenths of a CSS pixel, coordinates of the       *)
(* 512-unit detection space in tenths of a unit, and a percentage p is     *)
(* kept as the numerator of p = n / (512 * 10), so that 15% is exactly     *)
(* y1 = 76.8 and the stylesheet's 1.6 line height stays integral.          *)
(***************************************************************************)
EXTENDS Integers, Sequences, FiniteSets, TLC

VARIABLES
    viewport,   \* the window: [inner |-> window.innerWidth, cw |-> width of .image-container]
    children,   \* #bboxContainer.children: the .bbox elements with their labels
    timers,     \* pending setTimeout callbacks, in the order they were scheduled
    onload,     \* processedImage.onload waiting for the image set by displayResults
    api,        \* the detections the API answers for each image
    drawn,      \* the last drawBoundingBoxes call: its argument, its viewport, what it did
    previous,   \* the layout the call before it ended with, when it ran on the same input
    page,       \* the page around the overlay: requests in flight, #loading, #resultSection,
                \* the processed image, the detection list, #errorMessage, the demo gallery
    camera      \* currentStream, the streams getUserMedia handed out, the camera modal

vars == <<viewport, children, timers, onload, api, drawn, previous, page, camera>>

-----------------------------------------------------------------------------
(* Program constants *)

CoordSpace == 512
NearTopPercent == 15
NearBottomPercent == 85
NearRightPercent == 90
DefaultTopOffset == 25
LabelMargin == 2
Margin == 5
HorizontalGap == 10
VerticalGap == 5
MobileWidth == 768
SmallMobileWidth == 480
BorderWidth == 3
LabelBorder == 1
CameraOptions == 4          \* cameraOptions.length

(* Bounds of the model *)

MaxDetections == 3
MaxPendingDraws == 2
MaxInflight == 2        \* requests awaiting their response at one time
MaxErrorTimers == 2     \* hide timers of #errorMessage pending at one time
MaxOpening == 2         \* openCamera calls awaiting getUserMedia at one time
MaxStreams == 2         \* streams getUserMedia hands out in one run
MaxBlobs == 1           \* toBlob callbacks pending at one time

-----------------------------------------------------------------------------
(* Units *)

\* n CSS pixels, in tenths of a pixel
Px(n) == n * 10

\* the denominator of a percentage kept as a numerator: coordinate / 512 * 100
PercentDen == CoordSpace * 10

\* (c / 512) * 100 for a coordinate c given in tenths of a unit
ToPercent(c) == c * 100

\* parseFloat(style) * 512 / 100, back in tenths of a unit
FromPercent(p) == p \div 100

\* a percentage of the container resolved to tenths of a pixel
Resolve(p, cw) == (p * cw) \div (PercentDen * 10)

Rect(l, t, w, h) == [left |-> l, top |-> t, right |-> l + w, bottom |-> t + h]

ZeroRect == Rect(0, 0, 0, 0)

-----------------------------------------------------------------------------
(* getShortName *)

ShortNames ==
    [n \in {"Serviceability (>5 <15mm)", "Serviceability (>15 <25mm)",
            "Aesthetic (>1 <5mm)", "Stability (>25mm)", "Rising Damp",
            "Penetrating Damp", "Condensation", "Fine"} |->
        CASE n = "Serviceability (>5 <15mm)" -> "Serv."
          [] n = "Serviceability (>15 <25mm)" -> "Serv."
          [] n = "Aesthetic (>1 <5mm)" -> "Aest."
          [] n = "Stability (>25mm)" -> "Stab."
          [] n = "Rising Damp" -> "R.Damp"
          [] n = "Penetrating Damp" -> "P.Damp"
          [] n = "Condensation" -> "Cond."
          [] n = "Fine" -> "Fine"]

MediumNames ==
    [n \in {"Serviceability (>5 <15mm)", "Serviceability (>15 <25mm)",
            "Aesthetic (>1 <5mm)", "Stability (>25mm)", "Rising Damp",
            "Penetrating Damp", "Condensation", "Fine"} |->
        CASE n = "Serviceability (>5 <15mm)" -> "Service."
          [] n = "Serviceability (>15 <25mm)" -> "Service."
          [] n = "Aesthetic (>1 <5mm)" -> "Aesthetic"
          [] n = "Stability (>25mm)" -> "Stability"
          [] n = "Rising Damp" -> "Rising Damp"
          [] n = "Penetrating Damp" -> "Pen. Damp"
          [] n = "Condensation" -> "Condensation"
          [] n = "Fine" -> "Fine"]

\* fullName.substring(0, 5)
Substring5(s) == IF Len(s) <= 5 THEN s ELSE SubSeq(s, 1, 5)

getShortName(fullName, inner) ==
    IF inner <= SmallMobileWidth
    THEN IF fullName \in DOMAIN ShortNames THEN ShortNames[fullName]
         ELSE Substring5(fullName)
    ELSE IF inner <= MobileWidth
    THEN IF fullName \in DOMAIN MediumNames THEN MediumNames[fullName]
         ELSE fullName
    ELSE fullName

-----------------------------------------------------------------------------
(* The stylesheet: what getBoundingClientRect returns *)

\* .bbox-label font-size under the two media queries
FontSize(inner) == IF inner <= 480 THEN 8 ELSE IF inner <= 768 THEN 9 ELSE 10

\* .bbox-label horizontal and vertical padding
PadX(inner) == IF inner <= 480 THEN 4 ELSE IF inner <= 768 THEN 6 ELSE 8

PadY(inner) == IF inner <= 480 THEN 2 ELSE IF inner <= 768 THEN 2 ELSE 3

\* white-space: nowrap text, measured at half an em per character
TextWidth(text, inner) == Len(text) * FontSize(inner) * 5

LabelWidth(text, inner) ==
    TextWidth(text, inner) + Px(2 * PadX(inner)) + Px(2 * LabelBorder)

\* one line of body's line-height 1.6, plus padding and border
LabelHeight(inner) ==
    16 * FontSize(inner) + Px(2 * PadY(inner)) + Px(2 * LabelBorder)

\* the overlay covers the processed image, which is as high as it is wide
ContainerHeight(vp) == vp.cw

\* .bbox: position absolute, box-sizing border-box, sized in percent
BoxRect(e, vp) ==
    Rect(Resolve(e.left, vp.cw), Resolve(e.top, ContainerHeight(vp)),
         Resolve(e.width, vp.cw), Resolve(e.height, ContainerHeight(vp)))

\* .bbox-label: position absolute inside the padding box of its .bbox,
\* moved by its transform
LabelRect(e, vp) ==
    LET b == BoxRect(e, vp)
        w == LabelWidth(e.text, vp.inner)
        h == LabelHeight(vp.inner)
        padLeft == b.left + Px(BorderWidth)
        padRight == b.right - Px(BorderWidth)
        padTop == b.top + Px(BorderWidth)
        padBottom == b.bottom - Px(BorderWidth)
        l == IF e.labelLeft = "auto" THEN padRight - w ELSE padLeft
        t == IF e.labelTop = "100%" THEN padBottom + Px(e.marginTop)
             ELSE IF e.labelTop = "-25px" THEN padTop - Px(DefaultTopOffset)
             ELSE padTop - Px(e.marginBottom) - h
    IN Rect(l + e.tx, t + e.ty, w, h)

-----------------------------------------------------------------------------
(* positionLabelsIntelligently *)

\* mutants: the comparisons made inclusive, the bottom threshold moved
isNearTopInclusive(topPercent) == topPercent <= NearTopPercent * PercentDen

isNearBottomLate(topPercent) == topPercent > (NearBottomPercent + 5) * PercentDen

isNearRightInclusive(leftPercent) == leftPercent >= NearRightPercent * PercentDen

isNearTop(topPercent) == topPercent < NearTopPercent * PercentDen

isNearBottom(topPercent) == topPercent > NearBottomPercent * PercentDen

isNearRight(leftPercent) == leftPercent > NearRightPercent * PercentDen

positionLabel(e) ==
    LET v == IF isNearTop(e.top)
             THEN [e EXCEPT !.labelTop = "100%", !.labelBottom = "auto",
                            !.marginTop = LabelMargin]
             ELSE IF isNearBottom(e.top)
             THEN [e EXCEPT !.labelTop = "auto", !.labelBottom = "100%",
                            !.marginBottom = LabelMargin]
             ELSE [e EXCEPT !.labelTop = "-25px", !.labelBottom = "auto"]
    IN IF isNearRight(e.left)
       THEN [v EXCEPT !.labelLeft = "auto", !.labelRight = "0"]
       ELSE [v EXCEPT !.labelLeft = "0", !.labelRight = "auto"]

positionLabelsIntelligently(bboxElements) ==
    [i \in 1..Len(bboxElements) |-> positionLabel(bboxElements[i])]

-----------------------------------------------------------------------------
(* avoidLabelCollisions, isColliding, adjustLabelPosition *)

isColliding(rect1, rect2) ==
    ~ (\/ rect1.right + Px(Margin) < rect2.left
       \/ rect1.left > rect2.right + Px(Margin)
       \/ rect1.bottom + Px(Margin) < rect2.top
       \/ rect1.top > rect2.bottom + Px(Margin))

\* style.transform = `translateX(${rightShift}px)`: the new value replaces the old
setTranslateX(e, rightShift) == [e EXCEPT !.tx = rightShift, !.ty = 0]

\* style.transform = `translate(${rightShift}px, ${downShift}px)`
setTranslate(e, rightShift, downShift) == [e EXCEPT !.tx = rightShift, !.ty = downShift]

\* conflictingRect.right - currentRect.left + 10
rightShiftOf(e, conflictingRect, vp) ==
    conflictingRect.right - LabelRect(e, vp).left + Px(HorizontalGap)

\* the synchronous part of adjustLabelPosition: the label after it
adjustLabelPosition(e, conflictingRect, vp) ==
    LET rightShift == rightShiftOf(e, conflictingRect, vp)
    IN IF rightShift > 0 THEN setTranslateX(e, rightShift) ELSE e

\* the callback adjustLabelPosition hands to setTimeout(..., 0)
AdjustTimer(idx, rightShift, conflictingRect) ==
    [kind |-> "adjust", idx |-> idx, rightShift |-> rightShift,
     rect |-> conflictingRect, attached |-> TRUE, dets |-> <<>>]

\* the deferred part of adjustLabelPosition, run on the label as it is then
adjustLater(e, t, vp) ==
    LET newRect == LabelRect(e, vp)
    IN IF isColliding(newRect, t.rect)
       THEN setTranslate(e, t.rightShift, t.rect.bottom - newRect.top + Px(VerticalGap))
       ELSE e

\* labels.sort((a, b) => a.bbox.top - b.bbox.top), a stable sort
RECURSIVE InsertByTop(_, _)
InsertByTop(sorted, x) ==
    IF sorted = <<>> THEN <<x>>
    ELSE IF sorted[Len(sorted)].bbox.top <= x.bbox.top THEN Append(sorted, x)
    ELSE Append(InsertByTop(SubSeq(sorted, 1, Len(sorted) - 1), x), sorted[Len(sorted)])

RECURSIVE SortByTop(_)
SortByTop(labels) ==
    IF labels = <<>> THEN <<>>
    ELSE InsertByTop(SortByTop(SubSeq(labels, 1, Len(labels) - 1)), labels[Len(labels)])

\* the rectangle avoidLabelCollisions first records for an item
initialRect(e, vp) == BoxRect(e, vp)

\* the two nested loops, from the pair (i, j) on; st holds the sorted labels with
\* their recorded rectangles, the elements and the callbacks scheduled so far
RECURSIVE collisionLoop(_, _, _, _)
collisionLoop(i, j, st, vp) ==
    IF i > Len(st.labels) THEN st
    ELSE IF j > Len(st.labels) THEN collisionLoop(i + 1, i + 2, st, vp)
    ELSE LET labelA == st.labels[i]
             labelB == st.labels[j]
         IN IF isColliding(labelA.bbox, labelB.bbox)
            THEN LET old == st.elems[labelB.idx]
                     new == adjustLabelPosition(old, labelA.bbox, vp)
                     timer == AdjustTimer(labelB.idx,
                                          rightShiftOf(old, labelA.bbox, vp),
                                          labelA.bbox)
                 IN collisionLoop(i, j + 1,
                        [labels |-> [st.labels EXCEPT ![j].bbox = LabelRect(new, vp)],
                         elems |-> [st.elems EXCEPT ![labelB.idx] = new],
                         sched |-> Append(st.sched, timer),
                         shifts |-> Append(st.shifts,
                                       [idx |-> labelB.idx, against |-> labelA.bbox,
                                        before |-> LabelRect(old, vp),
                                        after |-> LabelRect(new, vp)])],
                        vp)
            ELSE collisionLoop(i, j + 1, st, vp)

avoidLabelCollisions(bboxElements, vp) ==
    LET labels == [i \in 1..Len(bboxElements) |->
                      [idx |-> i, bbox |-> initialRect(bboxElements[i], vp)]]
    IN collisionLoop(1, 2,
           [labels |-> SortByTop(labels), elems |-> bboxElements,
            sched |-> <<>>, shifts |-> <<>>],
           vp)

-----------------------------------------------------------------------------
(* drawBoundingBoxes *)

\* the .bbox element and its .bbox-label that the map callback creates
makeElement(detection, vp) ==
    [type |-> detection.type,
     left |-> ToPercent(detection.bbox.x1),
     top |-> ToPercent(detection.bbox.y1),
     width |-> ToPercent(detection.bbox.x2 - detection.bbox.x1),
     height |-> ToPercent(detection.bbox.y2 - detection.bbox.y1),
     text |-> getShortName(detection.name, vp.inner),
     labelTop |-> "", labelBottom |-> "", labelLeft |-> "", labelRight |-> "",
     marginTop |-> 0, marginBottom |-> 0, tx |-> 0, ty |-> 0]

\* mutant: the container is not emptied before the new boxes are appended
keptContainer(old, elems) == old \o elems

\* container.innerHTML = '' followed by the appendChild calls
freshContainer(old, elems) == elems

\* the overlay and the callbacks left by one call
drawBoundingBoxes(old, detections, vp) ==
    LET made == [i \in 1..Len(detections) |-> makeElement(detections[i], vp)]
        placed == positionLabelsIntelligently(freshContainer(old, made))
    IN avoidLabelCollisions(placed, vp)

\* the detections the resize handler reads back from the overlay
recoverDetection(child) ==
    [bbox |-> [x1 |-> FromPercent(child.left),
               y1 |-> FromPercent(child.top),
               x2 |-> FromPercent(child.left + child.width),
               y2 |-> FromPercent(child.top + child.height)],
     type |-> IF child.type = "crack" THEN "crack" ELSE "moisture",
     name |-> child.text]

recoverDetections(kids) == [i \in 1..Len(kids) |-> recoverDetection(kids[i])]

-----------------------------------------------------------------------------
(* Inputs *)

Viewports ==
    {[inner |-> 1024, cw |-> 512], [inner |-> 600, cw |-> 512],
     [inner |-> 400, cw |-> 256]}

Box(x1, y1, x2, y2) == [x1 |-> x1, y1 |-> y1, x2 |-> x2, y2 |-> y2]

\* detections the API may return; coordinates in tenths of a unit
Candidates ==
    {[bbox |-> Box(100, 100, 600, 600), type |-> "moisture", name |-> "Penetrating Damp"],
     [bbox |-> Box(4608, 768, 5000, 1200), type |-> "crack", name |-> "Fine"],
     [bbox |-> Box(4800, 4352, 5100, 4700), type |-> "moisture", name |-> "Rising Damp"],
     [bbox |-> Box(1000, 4500, 1300, 4800), type |-> "crack", name |-> "Stability (>25mm)"],
     [bbox |-> Box(1400, 4500, 1700, 4800), type |-> "moisture", name |-> "Rising Damp"]}

Responses == UNION {[1..n -> Candidates] : n \in 0..MaxDetections}

Images == {"first", "second"}

-----------------------------------------------------------------------------
(* The event loop *)

DrawTimer(detections) ==
    [kind |-> "draw", idx |-> 0, rightShift |-> 0, rect |-> ZeroRect,
     attached |-> TRUE, dets |-> detections]

ResizeTimer ==
    [kind |-> "resize", idx |-> 0, rightShift |-> 0, rect |-> ZeroRect,
     attached |-> TRUE, dets |-> <<>>]

Without(seq, k) == SubSeq(seq, 1, k - 1) \o SubSeq(seq, k + 1, Len(seq))

\* a 100ms timer runs after every timer scheduled before it; a 0ms timer runs
\* after the 0ms timers scheduled before it
MayFire(k) ==
    /\ k \in 1..Len(timers)
    /\ IF timers[k].kind = "adjust"
       THEN \A m \in 1..(k - 1) : timers[m].kind # "adjust"
       ELSE k = 1

PendingDraws == Cardinality({k \in 1..Len(timers) : timers[k].kind # "adjust"})

\* mutant: the callbacks of an earlier pass still reach the labels of the overlay
detachNone(ts) == ts

\* the labels of the elements container.innerHTML = '' removed are out of the
\* document: their pending callbacks no longer reach the overlay
detach(ts) ==
    [k \in 1..Len(ts) |->
        IF ts[k].kind = "adjust" THEN [ts[k] EXCEPT !.attached = FALSE] ELSE ts[k]]

\* no callback of the current pass is pending and the window kept its size
PassSettled ==
    /\ drawn.called
    /\ drawn.clean
    /\ \A k \in 1..Len(timers) : ~ (timers[k].kind = "adjust" /\ timers[k].attached)

\* one call of drawBoundingBoxes(detections), the other pending timers being rest;
\* origin is the API response the boxes go back to
Draw(detections, rest, origin) ==
    LET r == drawBoundingBoxes(children, detections, viewport)
    IN /\ children' = r.elems
       /\ timers' = detach(rest) \o r.sched
       /\ drawn' = [called |-> TRUE, clean |-> TRUE, dets |-> detections,
                    vp |-> viewport, shifts |-> r.shifts, sched |-> r.sched,
                    removed |-> Len(children), origin |-> origin]
       /\ previous' = IF PassSettled /\ drawn.dets = detections /\ drawn.vp = viewport
                      THEN [valid |-> TRUE, children |-> children]
                      ELSE [valid |-> FALSE, children |-> <<>>]

\* the page as the markup and the stylesheet leave it
PageAtLoad ==
    [inflight |-> <<>>, loading |-> FALSE, resultVisible |-> FALSE,
     image |-> "none", listed |-> "none", errorVisible |-> FALSE, errorTimers |-> 0,
     demoImagesLoaded |-> FALSE, demoShown |-> FALSE,
     latest |-> "none", latestDone |-> "none"]

\* let currentStream = null, the modal hidden, no stream asked for yet
CameraAtLoad ==
    [supported |-> TRUE, currentStream |-> 0, streams |-> <<>>, opening |-> <<>>,
     modal |-> FALSE, srcObject |-> 0, blobs |-> 0, closed |-> FALSE]

\* displayResults(data) for the response to img: the image, the summary and the
\* list are those of the response, and #resultSection is shown
displayResults(pg, img) ==
    [pg EXCEPT !.image = img, !.listed = img, !.resultVisible = TRUE]

-----------------------------------------------------------------------------
(* Actions *)

Init ==
    /\ viewport \in Viewports
    /\ children = <<>>
    /\ timers = <<>>
    /\ onload = [pending |-> FALSE, dets |-> <<>>]
    /\ api \in {f \in [Images -> Responses] : f["second"] = <<>>}
    /\ drawn = [called |-> FALSE, clean |-> FALSE, dets |-> <<>>,
                vp |-> [inner |-> 0, cw |-> 0], shifts |-> <<>>, sched |-> <<>>,
                removed |-> 0, origin |-> <<>>]
    /\ previous = [valid |-> FALSE, children |-> <<>>]
    /\ page = PageAtLoad
    /\ camera = CameraAtLoad

\* a successful response for an image reaches displayResults: the image is set
\* and its onload handler installed
DisplayResults ==
    \E img \in Images :
        /\ onload' = [pending |-> TRUE, dets |-> api[img]]
        /\ page' = displayResults(page, img)
        /\ UNCHANGED <<viewport, children, timers, api, drawn, previous, camera>>

\* processedImage.onload: setTimeout(() => drawBoundingBoxes(data.detections), 100)
ImageLoaded ==
    /\ onload.pending
    /\ PendingDraws < MaxPendingDraws
    /\ onload' = [pending |-> FALSE, dets |-> <<>>]
    /\ timers' = Append(timers, DrawTimer(onload.dets))
    /\ UNCHANGED <<viewport, children, api, drawn, previous, page, camera>>

\* the timer set by onload runs
FireDraw ==
    \E k \in 1..Len(timers) :
        /\ MayFire(k)
        /\ timers[k].kind = "draw"
        /\ Draw(timers[k].dets, Without(timers, k), timers[k].dets)
        /\ UNCHANGED <<viewport, onload, api, page, camera>>

\* the timer set by the resize listener runs
FireResizeDraw ==
    \E k \in 1..Len(timers) :
        /\ MayFire(k)
        /\ timers[k].kind = "resize"
        /\ Draw(recoverDetections(children), Without(timers, k), drawn.origin)
        /\ UNCHANGED <<viewport, onload, api, page, camera>>

\* the callback of adjustLabelPosition runs
FireAdjust ==
    \E k \in 1..Len(timers) :
        /\ MayFire(k)
        /\ timers[k].kind = "adjust"
        /\ timers' = Without(timers, k)
        /\ children' = IF timers[k].attached
                       THEN [children EXCEPT
                                ![timers[k].idx] = adjustLater(@, timers[k], viewport)]
                       ELSE children
        /\ UNCHANGED <<viewport, onload, api, drawn, previous, page, camera>>

\* mutant: the listener re-renders whatever the overlay holds
hasBoxesAlways(container) == TRUE

\* container.children.length > 0
hasBoxes(container) == Len(container) > 0

\* the window is resized: the listener runs
Resize ==
    \E vp \in Viewports \ {viewport} :
        /\ viewport' = vp
        /\ drawn' = [drawn EXCEPT !.clean = FALSE]
        /\ IF hasBoxes(children)
           THEN /\ PendingDraws < MaxPendingDraws
                /\ timers' = Append(timers, ResizeTimer)
           ELSE timers' = timers
        /\ UNCHANGED <<children, onload, api, previous, page, camera>>

Next ==
    \/ DisplayResults
    \/ ImageLoaded
    \/ FireDraw
    \/ FireResizeDraw
    \/ FireAdjust
    \/ Resize

Spec == Init /\ [][Next]_vars

-----------------------------------------------------------------------------
(* Requests: processImage, loadDemoImages, showError *)

DetectRequest(img) == [kind |-> "detect", img |-> img, latest |-> TRUE]
DemoRequest == [kind |-> "demo", img |-> "none", latest |-> FALSE]

\* showLoading(show)
showLoading(pg, show) == [pg EXCEPT !.loading = show]

\* showError(message): the message is shown and a 6000 ms timer will hide it
showError(pg) == [pg EXCEPT !.errorVisible = TRUE, !.errorTimers = @ + 1]
hideError(pg) == [pg EXCEPT !.errorVisible = FALSE]
hideResults(pg) == [pg EXCEPT !.resultVisible = FALSE]

\* the requests still awaited once request k got its response
Answered(pg, k) == [pg EXCEPT !.inflight = Without(@, k)]

\* ghost: which image was submitted last, and how its request ended
Submitted(pg, img) ==
    [pg EXCEPT !.latest = img, !.latestDone = "none",
               !.inflight = [k \in 1..Len(@) |-> [@[k] EXCEPT !.latest = FALSE]]
                            \o <<DetectRequest(img)>>]
Ended(pg, k, how) ==
    IF pg.inflight[k].latest THEN [pg EXCEPT !.latestDone = how] ELSE pg

\* processImage(imageBlob) up to its await of fetch('/api/detect/')
processImage(pg, img) == Submitted(hideResults(hideError(showLoading(pg, TRUE))), img)

\* handleFileSelect, processDemoImage or the camera hand an image to processImage
ProcessImage ==
    \E img \in Images :
        /\ Len(page.inflight) < MaxInflight
        /\ page' = processImage(page, img)
        /\ UNCHANGED <<viewport, children, timers, onload, api, drawn, previous, camera>>

\* the response of a detect request arrives with data.success: displayResults(data),
\* then the finally block
DetectSucceeds ==
    \E k \in 1..Len(page.inflight) :
        /\ page.inflight[k].kind = "detect"
        /\ page' = showLoading(displayResults(Answered(Ended(page, k, "ok"), k),
                                              page.inflight[k].img), FALSE)
        /\ onload' = [pending |-> TRUE, dets |-> api[page.inflight[k].img]]
        /\ UNCHANGED <<viewport, children, timers, api, drawn, previous, camera>>

\* the response carries success false, or fetch or response.json() rejects:
\* showError, then the finally block
DetectFails ==
    \E k \in 1..Len(page.inflight) :
        /\ page.inflight[k].kind = "detect"
        /\ page.errorTimers < MaxErrorTimers
        /\ page' = showLoading(showError(Answered(Ended(page, k, "failed"), k)), FALSE)
        /\ UNCHANGED <<viewport, children, timers, onload, api, drawn, previous, camera>>

\* toggleDemoImages: the gallery is shown and loadDemoImages() called, or it is hidden;
\* loadDemoImages returns at once when the gallery was loaded before
ToggleDemoImages ==
    /\ IF ~ page.demoShown
       THEN IF page.demoImagesLoaded
            THEN page' = [page EXCEPT !.demoShown = TRUE]
            ELSE /\ Len(page.inflight) < MaxInflight
                 /\ page' = [showLoading(page, TRUE) EXCEPT
                                !.demoShown = TRUE, !.inflight = Append(@, DemoRequest)]
       ELSE page' = [page EXCEPT !.demoShown = FALSE]
    /\ UNCHANGED <<viewport, children, timers, onload, api, drawn, previous, camera>>

\* fetch('/api/demo-images/') answered with data.success
DemoSucceeds ==
    \E k \in 1..Len(page.inflight) :
        /\ page.inflight[k].kind = "demo"
        /\ page' = showLoading([Answered(page, k) EXCEPT !.demoImagesLoaded = TRUE], FALSE)
        /\ UNCHANGED <<viewport, children, timers, onload, api, drawn, previous, camera>>

\* the gallery request fails, or its answer carries no success
DemoFails ==
    \E k \in 1..Len(page.inflight) :
        /\ page.inflight[k].kind = "demo"
        /\ page.errorTimers < MaxErrorTimers
        /\ page' = showLoading(showError(Answered(page, k)), FALSE)
        /\ UNCHANGED <<viewport, children, timers, onload, api, drawn, previous, camera>>

\* a hide timer of #errorMessage fires
ErrorTimerFires ==
    /\ page.errorTimers > 0
    /\ page' = [hideError(page) EXCEPT !.errorTimers = @ - 1]
    /\ UNCHANGED <<viewport, children, timers, onload, api, drawn, previous, camera>>

\* a narrow page and two images whose responses differ: the first holds two
\* detections whose labels collide, the second a single one
InitRequests ==
    /\ viewport = [inner |-> 400, cw |-> 256]
    /\ children = <<>>
    /\ timers = <<>>
    /\ onload = [pending |-> FALSE, dets |-> <<>>]
    /\ api \in {f \in [Images -> Responses] :
                    /\ Len(f["first"]) = 2 /\ f["first"][1] # f["first"][2]
                    /\ f["first"][1].bbox.y1 = 4500 /\ f["first"][2].bbox.y1 = 4500
                    /\ Len(f["second"]) = 1 /\ f["second"][1].bbox.y1 = 100}
    /\ drawn = [called |-> FALSE, clean |-> FALSE, dets |-> <<>>,
                vp |-> [inner |-> 0, cw |-> 0], shifts |-> <<>>, sched |-> <<>>,
                removed |-> 0, origin |-> <<>>]
    /\ previous = [valid |-> FALSE, children |-> <<>>]
    /\ page = PageAtLoad
    /\ camera = CameraAtLoad

NextRequests ==
    \/ ProcessImage
    \/ DetectSucceeds
    \/ DetectFails
    \/ ToggleDemoImages
    \/ DemoSucceeds
    \/ DemoFails
    \/ ErrorTimerFires
    \/ ImageLoaded
    \/ FireDraw
    \/ FireAdjust

SpecRequests == InitRequests /\ [][NextRequests]_vars

-----------------------------------------------------------------------------
(* The camera: openCamera, closeCamera, capturePhoto *)

\* camera.streams[s] tells whether the tracks of the s-th stream handed out are
\* live; currentStream and srcObject hold the number of a stream, 0 for null

\* showCameraError(message, suggestions): as showError, with an 8000 ms timer
showCameraError(pg) == [pg EXCEPT !.errorVisible = TRUE, !.errorTimers = @ + 1]

\* closeCamera(): the tracks of currentStream are stopped, the modal is hidden;
\* ghost closed tells that no openCamera was awaiting when it ran
closeCamera(cam) ==
    [cam EXCEPT !.streams = [s \in 1..Len(@) |-> @[s] /\ s # cam.currentStream],
                !.currentStream = 0,
                !.modal = FALSE,
                !.closed = (cam.opening = <<>>)]

\* openCamera() up to its first await; without the API it reports the error at once
OpenCamera ==
    IF camera.supported
    THEN /\ Len(camera.opening) < MaxOpening
         /\ camera' = [camera EXCEPT !.opening = Append(@, 1), !.closed = FALSE]
         /\ UNCHANGED <<viewport, children, timers, onload, api, drawn, previous, page>>
    ELSE /\ page.errorTimers < MaxErrorTimers
         /\ page' = showCameraError(page)
         /\ camera' = [camera EXCEPT !.closed = FALSE]
         /\ UNCHANGED <<viewport, children, timers, onload, api, drawn, previous>>

\* getUserMedia resolves for the k-th call awaiting: the stream becomes
\* currentStream and the video's srcObject, and the modal is shown
GetUserMediaResolves ==
    \E k \in 1..Len(camera.opening) :
        /\ Len(camera.streams) < MaxStreams
        /\ camera' = [camera EXCEPT !.opening = Without(@, k),
                                    !.streams = Append(@, TRUE),
                                    !.currentStream = Len(camera.streams) + 1,
                                    !.srcObject = Len(camera.streams) + 1,
                                    !.modal = TRUE]
        /\ UNCHANGED <<viewport, children, timers, onload, api, drawn, previous, page>>

\* getUserMedia rejects for the k-th call awaiting: the next option is tried,
\* and after the last one handleCameraError reports the failure
GetUserMediaRejects ==
    \E k \in 1..Len(camera.opening) :
        IF camera.opening[k] < CameraOptions
        THEN /\ camera' = [camera EXCEPT !.opening[k] = @ + 1]
             /\ UNCHANGED <<viewport, children, timers, onload, api, drawn, previous, page>>
        ELSE /\ page.errorTimers < MaxErrorTimers
             /\ camera' = [camera EXCEPT !.opening = Without(@, k)]
             /\ page' = showCameraError(page)
             /\ UNCHANGED <<viewport, children, timers, onload, api, drawn, previous>>

CloseCamera ==
    /\ camera' = closeCamera(camera)
    /\ page' = hideError(page)
    /\ UNCHANGED <<viewport, children, timers, onload, api, drawn, previous>>

\* capturePhoto(): with a frame in the video the canvas is asked for a blob,
\* otherwise showError; the video can only hold a frame of a stream it was given
CapturePhoto ==
    \E ready \in {r \in BOOLEAN : r => camera.srcObject # 0} :
        IF ready
        THEN /\ camera.blobs < MaxBlobs
             /\ camera' = [camera EXCEPT !.blobs = @ + 1]
             /\ UNCHANGED <<viewport, children, timers, onload, api, drawn, previous, page>>
        ELSE /\ page.errorTimers < MaxErrorTimers
             /\ page' = showError(page)
             /\ UNCHANGED <<viewport, children, timers, onload, api, drawn, previous,
                            camera>>

\* the toBlob callback with a blob: closeCamera(), then processImage(blob)
BlobReady ==
    \E img \in Images :
        /\ camera.blobs > 0
        /\ Len(page.inflight) < MaxInflight
        /\ camera' = [closeCamera(camera) EXCEPT !.blobs = @ - 1]
        /\ page' = processImage(hideError(page), img)
        /\ UNCHANGED <<viewport, children, timers, onload, api, drawn, previous>>

\* the toBlob callback with null: it throws, nothing else happens
BlobFails ==
    /\ camera.blobs > 0
    /\ camera' = [camera EXCEPT !.blobs = @ - 1]
    /\ UNCHANGED <<viewport, children, timers, onload, api, drawn, previous, page>>

\* a browser with or without the camera API, and two images with a response of
\* one detection and of none
InitCamera ==
    /\ viewport = [inner |-> 1024, cw |-> 512]
    /\ children = <<>>
    /\ timers = <<>>
    /\ onload = [pending |-> FALSE, dets |-> <<>>]
    /\ api \in {f \in [Images -> Responses] :
                    /\ Len(f["first"]) = 1 /\ f["first"][1].bbox.y1 = 100
                    /\ f["second"] = <<>>}
    /\ drawn = [called |-> FALSE, clean |-> FALSE, dets |-> <<>>,
                vp |-> [inner |-> 0, cw |-> 0], shifts |-> <<>>, sched |-> <<>>,
                removed |-> 0, origin |-> <<>>]
    /\ previous = [valid |-> FALSE, children |-> <<>>]
    /\ page = PageAtLoad
    /\ camera \in {[CameraAtLoad EXCEPT !.supported = b] : b \in BOOLEAN}

NextCamera ==
    \/ OpenCamera
    \/ GetUserMediaResolves
    \/ GetUserMediaRejects
    \/ CloseCamera
    \/ CapturePhoto
    \/ BlobReady
    \/ BlobFails
    \/ DetectSucceeds
    \/ DetectFails
    \/ ErrorTimerFires
    \/ ImageLoaded
    \/ FireDraw

SpecCamera == InitCamera /\ [][NextCamera]_vars

-----------------------------------------------------------------------------
(* Properties *)

\* y1 / 512 * 100 and x1 / 512 * 100 of the i-th region of the drawn list, as the
\* numerators of percentages
TopPercentOf(i) == drawn.dets[i].bbox.y1 * 100

LeftPercentOf(i) == drawn.dets[i].bbox.x1 * 100

Percent(n) == n * PercentDen

\* the label's rectangle as the placement pass left it, before any shift
PlacedRect(e, vp) == LabelRect([e EXCEPT !.tx = 0, !.ty = 0], vp)

Overlapping(r1, r2) ==
    /\ r1.left <= r2.right + Px(Margin)
    /\ r2.left <= r1.right + Px(Margin)
    /\ r1.top <= r2.bottom + Px(Margin)
    /\ r2.top <= r1.bottom + Px(Margin)

\* a step that is a call of drawBoundingBoxes
DrawStep == FireDraw \/ FireResizeDraw

\* C1: for two regions whose labels overlap within the 5px margin after the
\* placement pass, the labels' final rectangles, once the collision pass and
\* the callbacks it scheduled are done, do not overlap within that margin.
C1_NoOverlapAfterResolution ==
    (/\ PassSettled
     /\ Len(children) = 2
     /\ Overlapping(PlacedRect(children[1], viewport), PlacedRect(children[2], viewport)))
    => ~ Overlapping(LabelRect(children[1], viewport), LabelRect(children[2], viewport))

\* C2: for two detections with the same bounding box, once resolution is done
\* the second label's left edge is at least the first label's right edge
\* plus 10px.
C2_IdenticalBoxesSeparated ==
    (/\ PassSettled
     /\ Len(children) = 2
     /\ drawn.dets[1].bbox = drawn.dets[2].bbox)
    => LabelRect(children[2], viewport).left
          >= LabelRect(children[1], viewport).right + Px(10)

\* C3: a region whose top is below 15% has its label anchored below the box
\* (top = 100%), a region whose top is above 85% has it anchored above the box
\* (bottom = 100%), and regions with the same coordinates get the same anchors
\* whatever else is in the list.
C3_EdgeAnchors ==
    /\ \A i \in 1..Len(children) :
          /\ TopPercentOf(i) < Percent(15) => children[i].labelTop = "100%"
          /\ TopPercentOf(i) > Percent(85) => children[i].labelBottom = "100%"
    /\ \A i, j \in 1..Len(children) :
          (/\ drawn.dets[i].bbox.y1 = drawn.dets[j].bbox.y1
           /\ drawn.dets[i].bbox.x1 = drawn.dets[j].bbox.x1)
          => /\ children[i].labelTop = children[j].labelTop
             /\ children[i].labelBottom = children[j].labelBottom
             /\ children[i].labelLeft = children[j].labelLeft
             /\ children[i].labelRight = children[j].labelRight

\* C3 witness: one overlay holds a region near the top and a region near the
\* bottom, next to a region that is neither
C3_Witness ==
    /\ \E i \in 1..Len(children) :
          TopPercentOf(i) < Percent(15) /\ children[i].labelTop = "100%"
    /\ \E i \in 1..Len(children) :
          TopPercentOf(i) > Percent(85) /\ children[i].labelBottom = "100%"
    /\ \E i \in 1..Len(children) :
          TopPercentOf(i) >= Percent(15) /\ TopPercentOf(i) <= Percent(85)

\* C4 as claimed: a region whose left is at least 90%, exactly 90% included, has
\* its label right-aligned (left = auto, right = 0), any other left-aligned.
C4_RightAlignInclusive ==
    \A i \in 1..Len(children) :
        /\ LeftPercentOf(i) >= Percent(90)
              => children[i].labelLeft = "auto" /\ children[i].labelRight = "0"
        /\ LeftPercentOf(i) < Percent(90)
              => children[i].labelLeft = "0" /\ children[i].labelRight = "auto"

\* C4 amended: a region whose left is above 90% has its label right-aligned
\* (left = auto, right = 0); a region whose left is 90% or less, exactly 90%
\* included, has it left-aligned (left = 0, right = auto).
C4_RightAlignStrict ==
    \A i \in 1..Len(children) :
        /\ LeftPercentOf(i) > Percent(90)
              => children[i].labelLeft = "auto" /\ children[i].labelRight = "0"
        /\ LeftPercentOf(i) <= Percent(90)
              => children[i].labelLeft = "0" /\ children[i].labelRight = "auto"

\* C4 witness: a region at exactly 90% is drawn left-aligned beside one above 90%
C4_Witness ==
    /\ \E i \in 1..Len(children) :
          LeftPercentOf(i) = Percent(90) /\ children[i].labelLeft = "0"
    /\ \E i \in 1..Len(children) :
          LeftPercentOf(i) > Percent(90) /\ children[i].labelLeft = "auto"

\* C5: a pass that ran to its end on the same detections and in the same
\* viewport as the pass before it ends with the same overlay: the same
\* placement anchors and translate offsets for every label, and nothing else.
C5_Idempotent ==
    (PassSettled /\ previous.valid) => children = previous.children

\* C5 witness: the second of two such passes is done, and it shifted a label
\* right and another one down
C5_Witness ==
    /\ PassSettled
    /\ previous.valid
    /\ children = previous.children
    /\ \E i \in 1..Len(children) : children[i].tx # 0
    /\ \E i \in 1..Len(children) : children[i].ty # 0

\* C6: drawBoundingBoxes on an empty list leaves the overlay empty, whatever it
\* held before, and schedules no adjustment; a resize after it schedules no
\* re-render.
C6_EmptyDetections ==
    /\ [](drawn.called /\ drawn.dets = <<>>
            => /\ children = <<>>
               /\ drawn.sched = <<>>
               /\ \A k \in 1..Len(timers) :
                     ~ (timers[k].kind = "adjust" /\ timers[k].attached))
    /\ [][(children = <<>> /\ viewport' # viewport) => timers' = timers]_vars

\* C6 witness: an empty list was drawn over an overlay that held boxes, the
\* window was resized afterwards and no re-render is pending
C6_Witness ==
    /\ drawn.called
    /\ drawn.dets = <<>>
    /\ drawn.removed > 0
    /\ children = <<>>
    /\ viewport # drawn.vp
    /\ timers = <<>>

\* C7 as claimed: label positions change only inside a drawBoundingBoxes call;
\* no step after the call has returned changes one.
C7_Synchronous == [][children' # children => DrawStep]_vars

\* C7 amended: outside a drawBoundingBoxes call, a label position changes only
\* in a callback that the current pass deferred with setTimeout(..., 0), which
\* runs after the call has returned and rewrites the transform of its one
\* label; once the callbacks of the pass have run, positions stay as they are
\* until the next call.
C7_DeferredAdjustments ==
    [][children' # children =>
         \/ DrawStep
         \/ \E k \in 1..Len(timers) :
               /\ MayFire(k)
               /\ timers[k].kind = "adjust"
               /\ \E m \in 1..Len(drawn.sched) : drawn.sched[m] = timers[k]
               /\ Len(children') = Len(children)
               /\ \A i \in 1..Len(children) :
                     i # timers[k].idx => children'[i] = children[i]
               /\ children'[timers[k].idx].tx = timers[k].rightShift]_vars

\* C7 witness: a deferred callback has moved a label down after its pass returned
C7_Witness ==
    /\ drawn.called
    /\ \E i \in 1..Len(children) : children[i].ty # 0

\* C8 as claimed: a region whose top is at most 15%, exactly 15% included, has
\* its label below the box; a region whose top is at least 85%, exactly 85%
\* included, has its label above the box.
C8_InclusiveThresholds ==
    \A i \in 1..Len(children) :
        /\ TopPercentOf(i) <= Percent(15) => children[i].labelTop = "100%"
        /\ TopPercentOf(i) >= Percent(85)
              => children[i].labelBottom = "100%" \/ children[i].labelTop = "-25px"

\* C8 amended: the thresholds are exclusive. A region whose top is below 15%
\* has its label below the box (top = 100%) and one whose top is above 85% has
\* it anchored above the box (bottom = 100%); a region at exactly 15% or
\* exactly 85% gets the default placement, 25px above the box's top.
C8_StrictThresholds ==
    \A i \in 1..Len(children) :
        /\ TopPercentOf(i) < Percent(15) => children[i].labelTop = "100%"
        /\ TopPercentOf(i) > Percent(85) => children[i].labelBottom = "100%"
        /\ (TopPercentOf(i) = Percent(15) \/ TopPercentOf(i) = Percent(85))
              => children[i].labelTop = "-25px" /\ children[i].labelBottom = "auto"

\* C8 witness: regions at exactly 15% and at exactly 85% are drawn with the
\* default placement
C8_Witness ==
    /\ \E i \in 1..Len(children) :
          TopPercentOf(i) = Percent(15) /\ children[i].labelTop = "-25px"
    /\ \E i \in 1..Len(children) :
          TopPercentOf(i) = Percent(85) /\ children[i].labelTop = "-25px"

\* C9: every shift of the collision pass leaves the shifted label's left edge
\* 10px to the right of the right edge of the rectangle it collided with,
\* also when the label had been shifted before.
C9_ShiftPastConflicting ==
    \A k \in 1..Len(drawn.shifts) :
        drawn.shifts[k].after # drawn.shifts[k].before
        => drawn.shifts[k].after.left = drawn.shifts[k].against.right + Px(10)

\* C10: whatever resizes happened, the detections a pass draws are those of the
\* API response the overlay goes back to, and each label shows
\* getShortName(original category name) for the viewport of the pass.
C10_ResizeKeepsDetections ==
    drawn.called =>
        /\ Len(drawn.dets) = Len(drawn.origin)
        /\ Len(children) = Len(drawn.origin)
        /\ \A i \in 1..Len(drawn.origin) :
              /\ drawn.dets[i] = drawn.origin[i]
              /\ children[i].text = getShortName(drawn.origin[i].name, drawn.vp.inner)

\* no request awaited, no image load awaited, no timer of the overlay pending
Quiescent ==
    /\ page.inflight = <<>>
    /\ ~ onload.pending
    /\ timers = <<>>

\* the overlay holds boxes and they were drawn from the response to img
OverlayOf(img) == drawn.called /\ drawn.origin = api[img]

\* C11: latest submission wins.  Once every processImage call has completed and
\* every timer has fired, and the call for the most recently submitted image
\* succeeded, the result section shows the image, the summary, the list and the
\* overlay of that image; and whenever the result section is visible with boxes
\* in the overlay, the boxes come from the response the displayed image came from.
C11_LatestSubmissionWins ==
    /\ (Quiescent /\ page.latestDone = "ok")
          => /\ page.resultVisible
             /\ page.image = page.latest
             /\ page.listed = page.latest
             /\ OverlayOf(page.latest)
    /\ (page.resultVisible /\ Len(children) > 0) => OverlayOf(page.image)

\* C12: #loading is visible exactly while a request started by processImage or
\* by loadDemoImages is still awaited, whatever the order of the responses.
C12_LoadingWhileAwaited == page.loading <=> Len(page.inflight) > 0

\* the tracks of the s-th stream handed out are live
Live(s) == s \in 1..Len(camera.streams) /\ camera.streams[s]

\* C13: whatever openCamera, closeCamera and capturePhoto calls were made, a
\* stream with live tracks is the one held in currentStream; and after a
\* closeCamera made with no openCamera awaiting, and none called since, no
\* stream has a live track and the camera modal is hidden.
C13_OnlyCurrentStreamLive ==
    /\ \A s \in 1..Len(camera.streams) : Live(s) => camera.currentStream = s
    /\ (camera.closed /\ camera.opening = <<>>)
          => /\ \A s \in 1..Len(camera.streams) : ~ Live(s)
             /\ ~ camera.modal

====
